---- MODULE Spec2Model ----
(***************************************************************************)
(* Model of the chat application's persistence layer (lib/db/queries.ts),  *)
(* its route handlers (api/chat, api/vote, api/history) and server actions.*)
(* The relational tables are sets of rows; every query function is an      *)
(* operator computed the way its SQL is built, and every handler is an     *)
(* action.  Several specifications share the variables: each one exercises *)
(* one group of operations and leaves the other variables fixed.           *)
(***************************************************************************)
EXTENDS Integers, Sequences, FiniteSets, TLC

VARIABLES
  users,      \* table User: set of user ids that have a local row
  chats,      \* table Chat: set of [id, userId, createdAt, title, visibility]
  messages,   \* table Message: set of [id, chatId, role, createdAt]
  votes,      \* table Vote: set of [chatId, messageId, isUpvoted]
  now,        \* the value new Date() yields (millisecond clock)
  last,       \* the last completed call: its name, arguments and outcome
  vpc,        \* voteMessage in flight, per caller: the await it is suspended at
  vloc,       \* voteMessage in flight, per caller: arguments and locals
  ppc,        \* POST /api/chat in flight: position in the handler
  ploc,       \* POST /api/chat in flight: locals and the order of its effects
  documents,  \* table Document: set of [id, createdAt, userId]
  suggestions,\* table Suggestion: set of [id, documentId, documentCreatedAt]
  tpc,        \* text document handler in flight: position in its loop
  tloc,       \* text document handler in flight: locals and the data stream
  dpc,        \* deleteChatById in flight: the await it is suspended at
  dloc        \* deleteChatById in flight: its argument

dbVars   == <<users, chats, messages, votes>>
voteVars == <<vpc, vloc>>
postVars == <<ppc, ploc>>
docVars  == <<documents, suggestions>>
textVars == <<tpc, tloc>>
cascadeVars == <<dpc, dloc>>
otherVars == <<docVars, textVars, cascadeVars>>
vars     == <<users, chats, messages, votes, now, last, vpc, vloc, ppc, ploc,
              documents, suggestions, tpc, tloc, dpc, dloc>>

\* no document, no text generation and no deleteChatById in flight
IdleOther ==
  /\ documents = {} /\ suggestions = {}
  /\ tpc = "idle" /\ tloc = "none"
  /\ dpc = "idle" /\ dloc = "none"

----------------------------------------------------------------------------
(* Bounds of the model *)

MaxTime  == 2     \* clock values 1..MaxTime
MaxLimit == 2     \* limit arguments 0..MaxLimit

Users    == {"A", "B"}
ChatIds  == {"c1", "c2"}
PageChatIds == {"c1", "c2", "c3"}
MsgIds   == {"m1", "m2"}
Null     == "null"          \* a null / absent string argument
Times    == 1..MaxTime

Min(a, b) == IF a < b THEN a ELSE b
Range(s)  == {s[i] : i \in DOMAIN s}

----------------------------------------------------------------------------
(* The schema's constraints, as the database enforces them on a write *)

\* column default of Chat.visibility
DefaultVisibility == "private"

\* the row saveChat inserts: values({id, createdAt, userId, title}); the title
\* is the one generated for the first message
ChatRow(id, userId, createdAt) ==
  [id |-> id, userId |-> userId, createdAt |-> createdAt, title |-> "title",
   visibility |-> DefaultVisibility]

\* primary key of User (id)
UserInsertAllowed(U, id) == id \notin U

\* primary key of Chat (id) and foreign key Chat.userId -> User.id
ChatInsertAllowed(U, C, row) ==
  /\ \A c \in C : c.id # row.id
  /\ row.userId \in U

\* primary key of Message (id) and foreign key Message.chatId -> Chat.id
MessageInsertAllowed(C, M, row) ==
  /\ \A m \in M : m.id # row.id
  /\ \E c \in C : c.id = row.chatId

\* primary key of Vote (chatId, messageId), foreign keys to Chat and Message
VoteInsertAllowed(C, M, V, row) ==
  /\ \A v \in V : ~(v.chatId = row.chatId /\ v.messageId = row.messageId)
  /\ \E c \in C : c.id = row.chatId
  /\ \E m \in M : m.id = row.messageId

\* deleting the messages D is refused while a remaining vote refers to one
MessageDeleteAllowed(V, D) ==
  \A v \in V : \A m \in D : v.messageId # m.id

\* deleting the chats D is refused while a remaining message or vote refers to one
ChatDeleteAllowed(M, V, D) ==
  /\ \A m \in M : \A c \in D : m.chatId # c.id
  /\ \A v \in V : \A c \in D : v.chatId # c.id

----------------------------------------------------------------------------
(* Queries of lib/db/queries.ts.  A select yields a set of rows; a          *)
(* destructured first row ([row] = await ...) is the empty set (undefined)  *)
(* or a singleton.                                                          *)

FirstRow(S) == IF S = {} THEN {} ELSE {CHOOSE r \in S : TRUE}

\* mutant: the owner predicate is left out of the where clause
GetChatByIdNoOwner(C, id, userId) ==
  FirstRow({c \in C : c.id = id})

GetChatById(C, id, userId) ==
  FirstRow({c \in C : c.id = id /\ c.userId = userId})

\* mutant: the page is fetched with limit instead of limit + 1
ExtendedLimitNoExtra(limit) == limit

ExtendedLimit(limit) == limit + 1

\* the rows of S in createdAt-descending order, cut at n rows: every result
\* the database may produce (rows with equal createdAt come in any order)
OrderByCreatedAtDescLimit(S, n) ==
  LET k == Min(n, Cardinality(S))
  IN  {s \in [1..k -> S] :
         /\ \A i, j \in 1..k : i < j => /\ s[i] # s[j]
                                        /\ s[i].createdAt >= s[j].createdAt
         /\ \A r \in S \ Range(s) : \A i \in 1..k : s[i].createdAt >= r.createdAt}

\* query(whereCondition): cond is "all", "gt" or "lt" against the time t
ChatsQuery(C, id, cond, t, limit) ==
  OrderByCreatedAtDescLimit(
    {c \in C : /\ c.userId = id
               /\ CASE cond = "gt" -> c.createdAt > t
                    [] cond = "lt" -> c.createdAt < t
                    [] OTHER       -> TRUE},
    ExtendedLimit(limit))

Page(filteredChats, limit) ==
  LET hasMore == Len(filteredChats) > limit
  IN  [status  |-> "ok",
       chats   |-> IF hasMore THEN SubSeq(filteredChats, 1, limit) ELSE filteredChats,
       hasMore |-> hasMore]

NotFound == [status |-> "notFound"]

\* every outcome getChatsByUserId may have
GetChatsByUserId(C, id, limit, startingAfter, endingBefore) ==
  IF startingAfter # Null
  THEN LET selectedChat == FirstRow({c \in C : c.id = startingAfter})
       IN  IF selectedChat = {} THEN {NotFound}
           ELSE {Page(f, limit) :
                   f \in UNION {ChatsQuery(C, id, "gt", c.createdAt, limit) : c \in selectedChat}}
  ELSE IF endingBefore # Null
  THEN LET selectedChat == FirstRow({c \in C : c.id = endingBefore})
       IN  IF selectedChat = {} THEN {NotFound}
           ELSE {Page(f, limit) :
                   f \in UNION {ChatsQuery(C, id, "lt", c.createdAt, limit) : c \in selectedChat}}
  ELSE {Page(f, limit) : f \in ChatsQuery(C, id, "all", 0, limit)}

----------------------------------------------------------------------------
(* Actions shared by the specifications *)

NoCall == [op |-> "none"]

\* the clock advances between calls
Tick ==
  /\ now < MaxTime
  /\ now' = now + 1
  /\ last' = NoCall
  /\ UNCHANGED <<dbVars, voteVars, postVars, otherVars>>

\* saveChat({id, userId, title}): insert, createdAt = new Date()
SaveChat(id, userId) ==
  LET row == ChatRow(id, userId, now)
  IN  /\ IF ChatInsertAllowed(users, chats, row)
         THEN /\ chats' = chats \cup {row}
              /\ last' = [op |-> "saveChat", id |-> id, userId |-> userId, result |-> "ok"]
         ELSE /\ chats' = chats
              /\ last' = [op |-> "saveChat", id |-> id, userId |-> userId, result |-> "error"]
      /\ UNCHANGED <<users, messages, votes, now, voteVars, postVars, otherVars>>

CallGetChatById(id, userId) ==
  /\ last' = [op |-> "getChatById", id |-> id, userId |-> userId,
              result |-> GetChatById(chats, id, userId)]
  /\ UNCHANGED <<dbVars, now, voteVars, postVars, otherVars>>

CallGetChatsByUserId(id, limit, startingAfter, endingBefore) ==
  /\ \E outcome \in GetChatsByUserId(chats, id, limit, startingAfter, endingBefore) :
       last' = [op |-> "getChatsByUserId", id |-> id, limit |-> limit,
                startingAfter |-> startingAfter, endingBefore |-> endingBefore,
                outcome |-> outcome]
  /\ UNCHANGED <<dbVars, now, voteVars, postVars, otherVars>>

\* saveMessages({messages: [m]}): insert one message, createdAt = new Date()
SaveMessage(id, chatId, role) ==
  LET row == [id |-> id, chatId |-> chatId, role |-> role, createdAt |-> now]
  IN  /\ IF MessageInsertAllowed(chats, messages, row)
         THEN /\ messages' = messages \cup {row}
              /\ last' = [op |-> "saveMessages", id |-> id, chatId |-> chatId, result |-> "ok"]
         ELSE /\ messages' = messages
              /\ last' = [op |-> "saveMessages", id |-> id, chatId |-> chatId, result |-> "error"]
      /\ UNCHANGED <<users, chats, votes, now, voteVars, postVars, otherVars>>

----------------------------------------------------------------------------
(* voteMessage, statement by statement *)

\* mutant: the ownership check is dropped ("maybe just return silently?")
VoteMessageAuthorizedNoCheck(C, chatId, userId) == TRUE

\* getChatById, then the two throws: chat missing, or owned by someone else
VoteMessageAuthorized(C, chatId, userId) ==
  LET chatToVerify == GetChatById(C, chatId, userId)
  IN  /\ chatToVerify # {}
      /\ \A c \in chatToVerify : c.userId = userId

\* const [existingVote] = select from vote where messageId = messageId
ExistingVote(V, messageId) ==
  FirstRow({v \in V : v.messageId = messageId})

\* update vote set isUpvoted where messageId = messageId and chatId = chatId
UpdateVote(V, chatId, messageId, type) ==
  {IF v.messageId = messageId /\ v.chatId = chatId
     THEN [v EXCEPT !.isUpvoted = (type = "up")] ELSE v : v \in V}

VoteRow(chatId, messageId, type) ==
  [chatId |-> chatId, messageId |-> messageId, isUpvoted |-> (type = "up")]

\* the whole call, run without interruption: its result and the vote table after it
VoteMessageOutcome(C, M, V, chatId, messageId, type, userId) ==
  IF ~VoteMessageAuthorized(C, chatId, userId)
    THEN [result |-> "error", votes |-> V]
  ELSE IF ExistingVote(V, messageId) # {}
    THEN [result |-> "ok", votes |-> UpdateVote(V, chatId, messageId, type)]
  ELSE IF VoteInsertAllowed(C, M, V, VoteRow(chatId, messageId, type))
    THEN [result |-> "ok", votes |-> V \cup {VoteRow(chatId, messageId, type)}]
  ELSE [result |-> "error", votes |-> V]

VoteMessage(chatId, messageId, type, userId) ==
  LET out == VoteMessageOutcome(chats, messages, votes, chatId, messageId, type, userId)
  IN  /\ votes' = out.votes
      /\ last' = [op |-> "voteMessage", chatId |-> chatId, messageId |-> messageId,
                  type |-> type, userId |-> userId, result |-> out.result,
                  votesBefore |-> votes]
      /\ UNCHANGED <<users, chats, messages, now, voteVars, postVars, otherVars>>

----------------------------------------------------------------------------
(* Deletes of lib/db/queries.ts.  Each runs its statements one after the    *)
(* other with no transaction: a statement the database refuses throws, and  *)
(* what the earlier statements deleted stays deleted.                       *)

Snapshot == [chats |-> chats, messages |-> messages, votes |-> votes]

\* mutant: the vote delete has lost its where clause
VotesAfterDeleteAll(V, id) == {}

\* delete from vote where chatId = id: the table afterwards
VotesAfterDeleteByChat(V, id) == {v \in V : v.chatId # id}

DeleteChatByIdOutcome(C, M, V, id) ==
  LET V1 == VotesAfterDeleteByChat(V, id)
      DM == {m \in M : m.chatId = id}
      DC == {c \in C : c.id = id}
  IN  IF ~MessageDeleteAllowed(V1, DM)
        THEN [result |-> "error", chats |-> C, messages |-> M, votes |-> V1]
      ELSE IF ~ChatDeleteAllowed(M \ DM, V1, DC)
        THEN [result |-> "error", chats |-> C, messages |-> M \ DM, votes |-> V1]
      ELSE [result |-> "ok", chats |-> C \ DC, messages |-> M \ DM, votes |-> V1]

DeleteChatById(id) ==
  LET out == DeleteChatByIdOutcome(chats, messages, votes, id)
  IN  /\ chats' = out.chats
      /\ messages' = out.messages
      /\ votes' = out.votes
      /\ last' = [op |-> "deleteChatById", id |-> id, result |-> out.result,
                  before |-> Snapshot]
      /\ UNCHANGED <<users, now, voteVars, postVars, otherVars>>

\* message inner join chat on chatId, where message.id = id and chat.userId = userId
GetMessageById(C, M, id, userId) ==
  FirstRow({m \in M : /\ m.id = id
                      /\ \E c \in C : c.id = m.chatId /\ c.userId = userId})

CallGetMessageById(id, userId) ==
  /\ last' = [op |-> "getMessageById", id |-> id, userId |-> userId,
              result |-> GetMessageById(chats, messages, id, userId)]
  /\ UNCHANGED <<dbVars, now, voteVars, postVars, otherVars>>

\* select id from message where chatId = chatId and createdAt >= timestamp
MessagesToDelete(M, chatId, timestamp) ==
  {m \in M : m.chatId = chatId /\ m.createdAt >= timestamp}

DeleteMessagesAfterOutcome(C, M, V, chatId, timestamp, userId) ==
  LET chatToVerify == GetChatById(C, chatId, userId)
      messageIds == {m.id : m \in MessagesToDelete(M, chatId, timestamp)}
      V1 == {v \in V : ~(v.chatId = chatId /\ v.messageId \in messageIds)}
      DM == {m \in M : m.chatId = chatId /\ m.id \in messageIds}
  IN  IF chatToVerify = {} \/ \E c \in chatToVerify : c.userId # userId
        THEN [result |-> "error", messages |-> M, votes |-> V]
      ELSE IF messageIds = {}
        THEN [result |-> "ok", messages |-> M, votes |-> V]
      ELSE IF ~MessageDeleteAllowed(V1, DM)
        THEN [result |-> "error", messages |-> M, votes |-> V1]
      ELSE [result |-> "ok", messages |-> M \ DM, votes |-> V1]

DeleteMessagesByChatIdAfterTimestamp(chatId, timestamp, userId) ==
  LET out == DeleteMessagesAfterOutcome(chats, messages, votes, chatId, timestamp, userId)
  IN  /\ messages' = out.messages
      /\ votes' = out.votes
      /\ last' = [op |-> "deleteMessagesByChatIdAfterTimestamp", chatId |-> chatId,
                  timestamp |-> timestamp, userId |-> userId, result |-> out.result,
                  before |-> Snapshot]
      /\ UNCHANGED <<users, chats, now, voteVars, postVars, otherVars>>

\* the server action: getMessageById, then the range delete from that message on
\* (message.chatId of an undefined message throws)
DeleteTrailingMessages(id, userId) ==
  LET message == GetMessageById(chats, messages, id, userId)
      out == IF message = {}
               THEN [result |-> "error", messages |-> messages, votes |-> votes]
               ELSE LET m == CHOOSE x \in message : TRUE
                    IN  DeleteMessagesAfterOutcome(chats, messages, votes,
                                                   m.chatId, m.createdAt, userId)
  IN  /\ messages' = out.messages
      /\ votes' = out.votes
      /\ last' = [op |-> "deleteTrailingMessages", id |-> id, userId |-> userId,
                  result |-> out.result, before |-> Snapshot]
      /\ UNCHANGED <<users, chats, now, voteVars, postVars, otherVars>>

----------------------------------------------------------------------------
(* Just-in-time user synchronisation, as every route of api/chat and        *)
(* api/history runs it: getUserById, then the identity provider's profile,  *)
(* then createClerkUser.  profile is what the provider answers.             *)

Profiles == {"email", "noPrimaryEmail", "fetchError"}

\* [status |-> 0] when the route goes on, else the 500 it returns
SyncUser(U, userId, profile) ==
  IF userId \in U THEN [status |-> 0, users |-> U]
  ELSE IF profile = "email" THEN [status |-> 0, users |-> U \cup {userId}]
  ELSE [status |-> 500, users |-> U]

\* DELETE /api/chat?id=...: 404 without id, 401 without identity, the sync,
\* then getChatById(id, userId) and deleteChatById(id)
DeleteRouteOutcome(U, C, M, V, id, userId, profile) ==
  LET keep(status, U2) ==
        [status |-> status, users |-> U2, chats |-> C, messages |-> M, votes |-> V]
      sync == SyncUser(U, userId, profile)
      chatToDelete == GetChatById(C, id, userId)
      del == DeleteChatByIdOutcome(C, M, V, id)
  IN  IF id = Null THEN keep(404, U)
      ELSE IF userId = Null THEN keep(401, U)
      ELSE IF sync.status # 0 THEN keep(sync.status, sync.users)
      ELSE IF chatToDelete = {} THEN keep(404, sync.users)
      ELSE [status |-> IF del.result = "ok" THEN 200 ELSE 500, users |-> sync.users,
            chats |-> del.chats, messages |-> del.messages, votes |-> del.votes]

RouteDELETE(id, userId, profile) ==
  LET out == DeleteRouteOutcome(users, chats, messages, votes, id, userId, profile)
  IN  /\ users' = out.users
      /\ chats' = out.chats
      /\ messages' = out.messages
      /\ votes' = out.votes
      /\ last' = [op |-> "DELETE", id |-> id, userId |-> userId, status |-> out.status,
                  synced |-> (userId \in users), profile |-> profile,
                  before |-> Snapshot]
      /\ UNCHANGED <<now, voteVars, postVars, otherVars>>

----------------------------------------------------------------------------
(* SpecRead: the chat reads (getChatById, getChatsByUserId) over every      *)
(* chat table that saveChat can build                                       *)

IdleVote == [p \in {} |-> 0]
IdlePost == [p \in {} |-> 0]

InitRead ==
  /\ users = Users
  /\ chats = {}
  /\ messages = {}
  /\ votes = {}
  /\ now = 1
  /\ last = NoCall
  /\ vpc = IdleVote /\ vloc = IdleVote
  /\ ppc = IdlePost /\ ploc = IdlePost
  /\ IdleOther

NextRead ==
  \/ Tick
  \/ \E id \in PageChatIds, u \in Users : SaveChat(id, u)
  \/ \E id \in PageChatIds, u \in Users : CallGetChatById(id, u)
  \/ \E u \in Users, limit \in 0..MaxLimit,
        sa \in PageChatIds \cup {Null}, eb \in PageChatIds \cup {Null} :
       CallGetChatsByUserId(u, limit, sa, eb)

SpecRead == InitRead /\ [][NextRead]_vars

----------------------------------------------------------------------------
(* C1: getChatById(id, userId) returns the chat exactly when a chat with    *)
(* that id is stored and userId is its owner; for a chat owned by someone   *)
(* else it returns undefined, the same result as for an id that is not      *)
(* stored.                                                                  *)
C1_GetChatByIdOwnerOnly ==
  last.op = "getChatById" =>
    LET stored == {c \in chats : c.id = last.id}
    IN  /\ (stored = {} => last.result = {})
        /\ (\A c \in stored : c.userId # last.userId) => last.result = {}
        /\ (\E c \in stored : c.userId = last.userId) => last.result = stored

C1_Witness ==
  /\ last.op = "getChatById"
  /\ \E c \in chats : c.id = last.id /\ c.userId # last.userId
  /\ last.result = {}

(* C2: the outcome of getChatsByUserId for a user (rows, hasMore, or the     *)
(* not-found failure) is the outcome it has on the same table with every    *)
(* other user's chats removed: a cursor naming another user's chat behaves  *)
(* like a cursor naming no chat.                                            *)
OwnChats(C, id) == {c \in C : c.userId = id}

C2_HistoryScopedToCaller ==
  last.op = "getChatsByUserId" =>
    last.outcome \in GetChatsByUserId(OwnChats(chats, last.id), last.id, last.limit,
                                      last.startingAfter, last.endingBefore)

(* C3: a returned page holds at most limit chats, all owned by the caller,  *)
(* in createdAt-descending order, and hasMore is true exactly when more     *)
(* than limit chats of the caller satisfy the cursor filter.                *)
CursorOf(call) ==
  IF call.startingAfter # Null THEN call.startingAfter ELSE call.endingBefore

SatisfyingCursor(C, call) ==
  {c \in C :
     /\ c.userId = call.id
     /\ \A k \in C :
          k.id = CursorOf(call) =>
            IF call.startingAfter # Null THEN c.createdAt > k.createdAt
                                         ELSE c.createdAt < k.createdAt}

C3_PageBoundedOrderedHasMore ==
  (last.op = "getChatsByUserId" /\ last.outcome.status = "ok") =>
    LET page == last.outcome.chats
    IN  /\ Len(page) <= last.limit
        /\ \A i \in 1..Len(page) : page[i] \in chats /\ page[i].userId = last.id
        /\ \A i, j \in 1..Len(page) :
             i < j => page[i] # page[j] /\ page[i].createdAt >= page[j].createdAt
        /\ last.outcome.hasMore <=>
             Cardinality(SatisfyingCursor(chats, last)) > last.limit

C3_Witness ==
  /\ last.op = "getChatsByUserId" /\ last.outcome.status = "ok"
  /\ last.startingAfter # Null
  /\ last.limit = 1
  /\ Len(last.outcome.chats) = 1
  /\ last.outcome.hasMore

----------------------------------------------------------------------------
(* SpecVote: voteMessage calls one after another, on every table that      *)
(* saveChat, saveMessages and voteMessage can build                         *)

VoteTypes == {"up", "down"}

NextVote ==
  \/ \E id \in ChatIds, u \in Users : SaveChat(id, u)
  \/ \E id \in MsgIds, c \in ChatIds : SaveMessage(id, c, "user")
  \/ \E c \in ChatIds, m \in MsgIds, t \in VoteTypes, u \in Users : VoteMessage(c, m, t, u)

SpecVote == InitRead /\ [][NextVote]_vars

VotesFor(V, chatId, messageId) ==
  {v \in V : v.chatId = chatId /\ v.messageId = messageId}

(* C4: after a successful voteMessage by the chat's owner, exactly one vote *)
(* row exists for (chatId, messageId) and its isUpvoted is (type = 'up') of *)
(* that call, whatever the vote table held before.                          *)
C4_VoteUpsertOneRow ==
  (last.op = "voteMessage" /\ last.result = "ok") =>
    /\ Cardinality(VotesFor(votes, last.chatId, last.messageId)) = 1
    /\ \A v \in VotesFor(votes, last.chatId, last.messageId) :
         v.isUpvoted = (last.type = "up")

----------------------------------------------------------------------------
(* SpecVoteRace: voteMessage calls of several callers interleaved at their  *)
(* awaits.  Each await of the function is one step: getChatById, the select *)
(* on vote, then the update or the insert.  No transaction spans them.      *)

Callers == {"p1", "p2"}

IdleCall == [chatId |-> Null, messageId |-> Null, type |-> Null, userId |-> Null,
             touched |-> FALSE]

\* a table the operations above build: two chats, one message in each
InitVoteRace ==
  /\ users = Users
  /\ chats = {ChatRow("c1", "A", 1), ChatRow("c2", "B", 1)}
  /\ messages = {[id |-> "m1", chatId |-> "c1", role |-> "user", createdAt |-> 1],
                 [id |-> "m2", chatId |-> "c2", role |-> "user", createdAt |-> 1]}
  /\ votes = {}
  /\ now = 1
  /\ last = NoCall
  /\ vpc = [p \in Callers |-> "idle"]
  /\ vloc = [p \in Callers |-> IdleCall]
  /\ ppc = IdlePost /\ ploc = IdlePost
  /\ IdleOther

\* a caller enters voteMessage
VoteCall(p, chatId, messageId, type, userId) ==
  /\ vpc[p] = "idle"
  /\ vpc' = [vpc EXCEPT ![p] = "verify"]
  /\ vloc' = [vloc EXCEPT ![p] = [chatId |-> chatId, messageId |-> messageId,
                                  type |-> type, userId |-> userId, touched |-> FALSE]]
  /\ UNCHANGED <<dbVars, now, last, postVars, otherVars>>

\* await getChatById, and the two throws
VoteVerify(p) ==
  /\ vpc[p] = "verify"
  /\ vpc' = [vpc EXCEPT ![p] =
               IF VoteMessageAuthorized(chats, vloc[p].chatId, vloc[p].userId)
                 THEN "select" ELSE "error"]
  /\ UNCHANGED <<dbVars, now, last, vloc, postVars, otherVars>>

\* await select from vote; branch on existingVote
VoteSelect(p) ==
  /\ vpc[p] = "select"
  /\ vpc' = [vpc EXCEPT ![p] =
               IF ExistingVote(votes, vloc[p].messageId) # {} THEN "update" ELSE "insert"]
  /\ vloc' = [vloc EXCEPT ![p].touched = TRUE]
  /\ UNCHANGED <<dbVars, now, last, postVars, otherVars>>

\* await update vote
VoteUpdate(p) ==
  /\ vpc[p] = "update"
  /\ votes' = UpdateVote(votes, vloc[p].chatId, vloc[p].messageId, vloc[p].type)
  /\ vpc' = [vpc EXCEPT ![p] = "done"]
  /\ UNCHANGED <<users, chats, messages, now, last, vloc, postVars, otherVars>>

\* await insert into vote; a refused insert throws
VoteInsert(p) ==
  /\ vpc[p] = "insert"
  /\ LET row == VoteRow(vloc[p].chatId, vloc[p].messageId, vloc[p].type)
     IN  IF VoteInsertAllowed(chats, messages, votes, row)
           THEN /\ votes' = votes \cup {row}
                /\ vpc' = [vpc EXCEPT ![p] = "done"]
           ELSE /\ votes' = votes
                /\ vpc' = [vpc EXCEPT ![p] = "error"]
  /\ UNCHANGED <<users, chats, messages, now, last, vloc, postVars, otherVars>>

\* the call has returned or thrown; the caller may call again
VoteReturn(p) ==
  /\ vpc[p] \in {"done", "error"}
  /\ vpc' = [vpc EXCEPT ![p] = "idle"]
  /\ vloc' = [vloc EXCEPT ![p] = IdleCall]
  /\ UNCHANGED <<dbVars, now, last, postVars, otherVars>>

NextVoteRace ==
  \/ \E p \in Callers, c \in ChatIds, m \in MsgIds, t \in VoteTypes, u \in Users :
       VoteCall(p, c, m, t, u)
  \/ \E p \in Callers : VoteVerify(p)
  \/ \E p \in Callers : VoteSelect(p)
  \/ \E p \in Callers : VoteUpdate(p)
  \/ \E p \in Callers : VoteInsert(p)
  \/ \E p \in Callers : VoteReturn(p)

SpecVoteRace == InitVoteRace /\ [][NextVoteRace]_vars

OwnsChat(C, chatId, userId) == \E c \in C : c.id = chatId /\ c.userId = userId

(* C5: however concurrent voteMessage calls interleave, the vote table      *)
(* never holds two rows for one (chatId, messageId) and no call by the      *)
(* chat's owner ends in an error.                                           *)
C5_ConcurrentVotesNoDuplicateNoError ==
  /\ \A c \in ChatIds, m \in MsgIds : Cardinality(VotesFor(votes, c, m)) <= 1
  /\ \A p \in Callers :
       (vpc[p] = "error") => ~OwnsChat(chats, vloc[p].chatId, vloc[p].userId)

(* C6: a voteMessage call by a user who does not own chatId (or for a chat  *)
(* that does not exist) throws, and it throws at the ownership check: the   *)
(* call never reads or writes the vote table.                               *)
C6_NonOwnerVoteFailsBeforeVoteTable ==
  \A p \in Callers :
    (vpc[p] # "idle" /\ ~OwnsChat(chats, vloc[p].chatId, vloc[p].userId)) =>
      /\ vpc[p] \in {"verify", "error"}
      /\ ~vloc[p].touched

C6_Witness ==
  \E p \in Callers :
    /\ vpc[p] = "error"
    /\ ~OwnsChat(chats, vloc[p].chatId, vloc[p].userId)
    /\ ~vloc[p].touched
    /\ votes # {}

----------------------------------------------------------------------------
(* SpecDelete: deleteChatById, deleteMessagesByChatIdAfterTimestamp, the    *)
(* deleteTrailingMessages action and the DELETE route, one call after the   *)
(* other.  Two chats exist; "N" is an authenticated user the application    *)
(* has not seen yet.                                                        *)

AuthUsers == Users \cup {"N"}

InitDelete ==
  /\ users = Users
  /\ chats = {ChatRow("c1", "A", 1), ChatRow("c2", "B", 1)}
  /\ messages = {}
  /\ votes = {}
  /\ now = 1
  /\ last = NoCall
  /\ vpc = IdleVote /\ vloc = IdleVote
  /\ ppc = IdlePost /\ ploc = IdlePost
  /\ IdleOther

NextDelete ==
  \/ Tick
  \/ \E id \in MsgIds, c \in ChatIds : SaveMessage(id, c, "user")
  \/ \E c \in ChatIds, m \in MsgIds, u \in Users : VoteMessage(c, m, "up", u)
  \/ \E id \in ChatIds : DeleteChatById(id)
  \/ \E id \in MsgIds, u \in Users : CallGetMessageById(id, u)
  \/ \E c \in ChatIds, t \in Times, u \in Users :
       DeleteMessagesByChatIdAfterTimestamp(c, t, u)
  \/ \E id \in MsgIds, u \in Users : DeleteTrailingMessages(id, u)
  \/ \E id \in ChatIds \cup {Null}, u \in AuthUsers \cup {Null}, pr \in Profiles :
       RouteDELETE(id, u, pr)

SpecDelete == InitDelete /\ [][NextDelete]_vars

(* C7: after deleteChatById(id) has succeeded, no chat, message or vote     *)
(* with that chat id is left, getMessageById finds none of the chat's       *)
(* former messages for any user, and the rows of every other chat are as    *)
(* they were.                                                               *)
C7_DeleteChatRemovesItsRowsOnly ==
  (last.op = "deleteChatById" /\ last.result = "ok") =>
    /\ \A c \in chats : c.id # last.id
    /\ \A m \in messages : m.chatId # last.id
    /\ \A v \in votes : v.chatId # last.id
    /\ \A m \in last.before.messages :
         m.chatId = last.id =>
           \A u \in AuthUsers : GetMessageById(chats, messages, m.id, u) = {}
    /\ {c \in chats : c.id # last.id} = {c \in last.before.chats : c.id # last.id}
    /\ {m \in messages : m.chatId # last.id}
         = {m \in last.before.messages : m.chatId # last.id}
    /\ {v \in votes : v.chatId # last.id}
         = {v \in last.before.votes : v.chatId # last.id}

C7_Witness ==
  /\ last.op = "deleteChatById" /\ last.result = "ok"
  /\ \E m \in last.before.messages : m.chatId = last.id
  /\ \E v \in last.before.votes : v.chatId = last.id
  /\ messages # {}
  /\ votes # {}

(* C8: deleteMessagesByChatIdAfterTimestamp(chatId, T, owner) removes       *)
(* exactly the chat's messages with createdAt >= T and the votes on them,   *)
(* and changes no other message and no other vote.                          *)
C8_TruncationRemovesExactlyFromT ==
  (/\ last.op = "deleteMessagesByChatIdAfterTimestamp"
   /\ OwnsChat(chats, last.chatId, last.userId)) =>
    LET gone == {m \in last.before.messages :
                   m.chatId = last.chatId /\ m.createdAt >= last.timestamp}
    IN  /\ messages = last.before.messages \ gone
        /\ votes = {v \in last.before.votes : \A m \in gone : v.messageId # m.id}

(* C9: a DELETE by an authenticated user for a chat that user does not own  *)
(* (another user's, or none) answers 401 or 404 and changes no chat, no     *)
(* message and no vote.                                                     *)
C9_ForeignDeleteRefused401or404 ==
  (/\ last.op = "DELETE" /\ last.id # Null /\ last.userId # Null
   /\ ~OwnsChat(last.before.chats, last.id, last.userId)) =>
    /\ last.status \in {401, 404}
    /\ Snapshot = last.before

(* C9 as amended: the answer is 401 or 404, or 500 when the caller has no   *)
(* local user row and the just-in-time sync fails; it is never 200, and no  *)
(* chat, message or vote changes.                                           *)
C9_ForeignDeleteRefused ==
  (/\ last.op = "DELETE" /\ last.id # Null /\ last.userId # Null
   /\ ~OwnsChat(last.before.chats, last.id, last.userId)) =>
    /\ last.status \in {401, 404, 500}
    /\ last.status = 500 => (~last.synced /\ last.profile # "email")
    /\ Snapshot = last.before

C9_Witness ==
  /\ last.op = "DELETE" /\ last.userId = "A" /\ last.status = 404
  /\ \E c \in chats : c.id = last.id /\ c.userId = "B"
  /\ \E m \in messages : m.chatId = last.id
  /\ \E v \in votes : v.chatId = last.id

----------------------------------------------------------------------------
(* SpecPost: POST /api/chat, one step per await of the handler, the         *)
(* execute callback and the onFinish callback, and the request's abort      *)
(* signal as an event of its own.                                           *)

MaxChunks == 2     \* chunks the model stream relays before it ends

Requests   == {"r1"}
PostChatIds == {"c1", "c2", "c3"}
UserMsgIds == {"m1", "m2"}
AsstIds    == {"a1", "a2"}
McpModes   == {"unset", "ok", "connectFail", "toolsFail"}
Bodies     == {"json", "malformed"}

\* a tool map is a function from tool names to callables
LocalToolNames == {"getWeather", "createDocument", "updateDocument", "requestSuggestions"}

\* the four tools the route builds itself
LocalTools == [n \in LocalToolNames |-> "local"]

\* what mcpClient.tools() answers when the tool server is reached
RemoteTools == [n \in {"remoteTool"} |-> "remote"]

\* let mcpToolsFormatted = {}
NoTools == [n \in {} |-> "remote"]

\* mutant: the local tools are spread last
AllToolsLocalLast(local, mcp) ==
  [n \in DOMAIN local \cup DOMAIN mcp |-> IF n \in DOMAIN local THEN local[n] ELSE mcp[n]]

\* allTools = {...localToolsWithStream, ...mcpToolsFormatted}: a later spread
\* overwrites the keys of an earlier one
AllTools(local, mcp) ==
  [n \in DOMAIN local \cup DOMAIN mcp |-> IF n \in DOMAIN mcp THEN mcp[n] ELSE local[n]]

IdleRequest ==
  [id |-> Null, userId |-> Null, msgId |-> Null, mcpMode |-> "unset",
   status |-> 0, from |-> Null, profile |-> Null,
   mcpClient |-> "null", conn |-> "none", mcpTools |-> NoTools, tools |-> NoTools,
   listening |-> FALSE, aborted |-> FALSE, abortedStreaming |-> FALSE,
   chunks |-> 0, userCreated |-> FALSE, chatCreated |-> FALSE,
   chatRefused |-> FALSE, modelInvoked |-> FALSE, inboundSaved |-> FALSE, streamStarted |-> FALSE,
   streamDone |-> FALSE, outboundAttempted |-> FALSE, outboundSaved |-> FALSE,
   finishFault |-> Null, reclosed |-> FALSE, uncaught |-> FALSE]

\* mutant: the inbound save is left to run after the response is returned
StepAfterChatResolvedNoSave == "mcpConnect"

\* after the chat is loaded or created: await saveMessages (the inbound message)
StepAfterChatResolved == "saveInbound"

\* mutant: the outbound save is started with the stream, not in onFinish
StepAfterStreamTextSavesAtOnce == "onFinishAuth"

\* after streamText(...) is called: consumeStream / mergeIntoDataStream relay it
StepAfterStreamText == "streaming"

\* mutant: every answer of the identity provider is taken as a profile
ProfileAlwaysUsable(profile) == TRUE

\* the provider answered and the profile has a primary email address
ProfileUsable(profile) == profile = "email"

\* mutant: a failed outbound save escapes onFinish
StepAfterOutboundSaveThrows(saved) == IF saved THEN "closeMcp" ELSE "ended"

\* onFinish after the try/catch around the outbound save: the MCP close
StepAfterOutboundSave(saved) == "closeMcp"

\* mutant: mcpClient.close() is awaited outside a try/catch
CloseErrorUncaught(threw) == threw

\* try { await mcpClient.close() } catch (e) { log }: nothing escapes
CloseErrorEscapes(threw) == FALSE

\* await mcpClient.close() inside its try/catch; threw is whether a close of an
\* already closed connection rejects
CloseMcpClient(loc, threw) ==
  [loc EXCEPT !.conn = "closed",
              !.reclosed = @ \/ loc.conn = "closed",
              !.uncaught = @ \/ CloseErrorEscapes(loc.conn = "closed" /\ threw)]

\* mutant: the catch only logs
McpCatchKeepsClient(loc) == loc

\* catch (mcpError): close the client if one was created, and forget it
McpCatch(loc) ==
  IF loc.mcpClient # "null"
    THEN [CloseMcpClient(loc, FALSE) EXCEPT !.mcpClient = "null"]
    ELSE loc

InitPost ==
  /\ users = Users
  /\ chats = {ChatRow("c1", "A", 1), ChatRow("c2", "B", 1)}
  /\ messages = {}
  /\ votes = {}
  /\ now = 1
  /\ last = NoCall
  /\ vpc = IdleVote /\ vloc = IdleVote
  /\ ppc = [r \in Requests |-> "idle"]
  /\ ploc = [r \in Requests |-> IdleRequest]
  /\ IdleOther

PostFrame == UNCHANGED <<now, last, voteVars, otherVars>>

\* the request moves to its next await with its locals as loc
Step(r, step, loc) ==
  /\ ppc' = [ppc EXCEPT ![r] = step]
  /\ ploc' = [ploc EXCEPT ![r] = loc]

\* return a Response with this status, from the statement at
Responded(loc, at, status) == [loc EXCEPT !.status = status, !.from = at]

Respond(r, status) == Step(r, "responded", Responded(ploc[r], ppc[r], status))

Goto(r, step) == Step(r, step, ploc[r])

\* the request arrives and await request.json() reads {id, messages}; a body
\* that is not JSON throws into the handler's catch
PostRequest(r, body, id, userId, msgId, mcpMode) ==
  /\ ppc[r] = "idle"
  /\ IF body = "json"
       THEN Step(r, "auth", [IdleRequest EXCEPT !.id = id, !.userId = userId,
                                                !.msgId = msgId, !.mcpMode = mcpMode])
       ELSE Step(r, "responded",
                 Responded([IdleRequest EXCEPT !.userId = userId], "json", 500))
  /\ UNCHANGED dbVars /\ PostFrame

\* await auth(); 401 without a user id
PostAuth(r) ==
  /\ ppc[r] = "auth"
  /\ IF ploc[r].userId = Null THEN Respond(r, 401) ELSE Goto(r, "getUser")
  /\ UNCHANGED dbVars /\ PostFrame

\* getMostRecentUserMessage(messages): 400 when the body holds no user message
AfterSync(r, loc) ==
  IF loc.msgId = Null
    THEN Step(r, "responded", Responded(loc, "userMessage", 400))
    ELSE Step(r, "getChat", loc)

\* await getUserById
PostGetUser(r) ==
  /\ ppc[r] = "getUser"
  /\ IF ploc[r].userId \in users THEN AfterSync(r, ploc[r]) ELSE Goto(r, "clerk")
  /\ UNCHANGED dbVars /\ PostFrame

\* await clerkClient().users.getUser: no primary email, or a throw, answers 500
PostClerk(r, profile) ==
  /\ ppc[r] = "clerk"
  /\ LET loc == [ploc[r] EXCEPT !.profile = profile]
     IN  IF ProfileUsable(profile)
           THEN Step(r, "createUser", loc)
           ELSE Step(r, "responded", Responded(loc, "clerk", 500))
  /\ UNCHANGED dbVars /\ PostFrame

\* await createClerkUser: the insert throws on an id that exists by now
PostCreateUser(r) ==
  /\ ppc[r] = "createUser"
  /\ IF UserInsertAllowed(users, ploc[r].userId)
       THEN /\ users' = users \cup {ploc[r].userId}
            /\ AfterSync(r, [ploc[r] EXCEPT !.userCreated = TRUE])
       ELSE /\ users' = users
            /\ Respond(r, 500)
  /\ UNCHANGED <<chats, messages, votes>> /\ PostFrame

\* await getChatById({id, userId})
PostGetChat(r) ==
  /\ ppc[r] = "getChat"
  /\ LET chat == GetChatById(chats, ploc[r].id, ploc[r].userId)
     IN  IF chat = {} THEN Goto(r, "title")
         ELSE IF \E c \in chat : c.userId # ploc[r].userId THEN Respond(r, 401)
         ELSE Goto(r, StepAfterChatResolved)
  /\ UNCHANGED dbVars /\ PostFrame

\* await generateTitleFromUserMessage: a model call, which may throw
PostTitle(r, ok) ==
  /\ ppc[r] = "title"
  /\ LET loc == [ploc[r] EXCEPT !.modelInvoked = TRUE]
     IN  IF ok THEN Step(r, "saveChat", loc)
         ELSE Step(r, "responded", Responded(loc, "title", 500))
  /\ UNCHANGED dbVars /\ PostFrame

\* mutant: a refused saveChat is swallowed and the handler goes on
StepAfterSaveChatThrowsGoesOn == StepAfterChatResolved

\* a throw of saveChat lands in the handler's catch, which answers 500
StepAfterSaveChatThrows == "responded"

\* await saveChat: a refused insert throws into the handler's catch
PostSaveChat(r) ==
  /\ ppc[r] = "saveChat"
  /\ LET row == ChatRow(ploc[r].id, ploc[r].userId, now)
     IN  IF ChatInsertAllowed(users, chats, row)
           THEN /\ chats' = chats \cup {row}
                /\ Step(r, StepAfterChatResolved, [ploc[r] EXCEPT !.chatCreated = TRUE])
           ELSE /\ chats' = chats
                /\ Step(r, StepAfterSaveChatThrows,
                        IF StepAfterSaveChatThrows = "responded"
                          THEN [Responded(ploc[r], ppc[r], 500) EXCEPT !.chatRefused = TRUE]
                          ELSE [ploc[r] EXCEPT !.chatRefused = TRUE])
  /\ UNCHANGED <<users, messages, votes>> /\ PostFrame

\* await saveMessages (the user's message), then return the stream response
PostSaveInbound(r) ==
  /\ ppc[r] = "saveInbound"
  /\ LET row == [id |-> ploc[r].msgId, chatId |-> ploc[r].id, role |-> "user",
                 createdAt |-> now]
     IN  IF MessageInsertAllowed(chats, messages, row)
           THEN /\ messages' = messages \cup {row}
                /\ Step(r, "mcpConnect",
                        [ploc[r] EXCEPT !.inboundSaved = TRUE, !.status = 200])
           ELSE /\ messages' = messages
                /\ Respond(r, 500)
  /\ UNCHANGED <<users, chats, votes>> /\ PostFrame

\* execute: await experimental_createMCPClient, unless no script path is set;
\* a missing BRAVE_API_KEY or a failed spawn throws into the catch
PostMcpConnect(r) ==
  /\ ppc[r] = "mcpConnect"
  /\ IF ploc[r].mcpMode \in {"ok", "toolsFail"}
       THEN Step(r, "mcpTools", [ploc[r] EXCEPT !.mcpClient = "client", !.conn = "open"])
       ELSE IF ploc[r].mcpMode = "connectFail"
       THEN Step(r, "streamText", McpCatch(ploc[r]))
       ELSE Goto(r, "streamText")
  /\ UNCHANGED dbVars /\ PostFrame

\* await mcpClient.tools(): mcpToolsFormatted = rawMcpTools, or the catch
PostMcpTools(r) ==
  /\ ppc[r] = "mcpTools"
  /\ IF ploc[r].mcpMode = "toolsFail"
       THEN Step(r, "streamText", McpCatch(ploc[r]))
       ELSE Step(r, "streamText", [ploc[r] EXCEPT !.mcpTools = RemoteTools])
  /\ UNCHANGED dbVars /\ PostFrame

\* streamText(...), consumeStream, mergeIntoDataStream, addEventListener('abort')
PostStreamText(r) ==
  /\ ppc[r] = "streamText"
  /\ Step(r, StepAfterStreamText,
          [ploc[r] EXCEPT !.tools = AllTools(LocalTools, ploc[r].mcpTools),
                          !.modelInvoked = TRUE, !.streamStarted = TRUE,
                          !.listening = TRUE])
  /\ UNCHANGED dbVars /\ PostFrame

\* the model produces a chunk and it is relayed
PostChunk(r) ==
  /\ ppc[r] = "streaming"
  /\ ploc[r].chunks < MaxChunks
  /\ ploc' = [ploc EXCEPT ![r].chunks = @ + 1]
  /\ UNCHANGED <<ppc, dbVars>> /\ PostFrame

\* the model stream ends normally: the SDK calls onFinish
PostStreamComplete(r) ==
  /\ ppc[r] = "streaming"
  /\ Step(r, "onFinishAuth", [ploc[r] EXCEPT !.streamDone = TRUE])
  /\ UNCHANGED dbVars /\ PostFrame

\* the model stream fails: onError answers in the stream, onFinish is not called
PostStreamError(r) ==
  /\ ppc[r] = "streaming"
  /\ Goto(r, "ended")
  /\ UNCHANGED dbVars /\ PostFrame

\* onFinish: await auth(); without a session the save is skipped
PostOnFinishAuth(r, finishUserId) ==
  /\ ppc[r] = "onFinishAuth"
  /\ IF finishUserId # Null
       THEN Goto(r, "saveOutbound")
       ELSE Step(r, "closeMcp", [ploc[r] EXCEPT !.finishFault = "noSession"])
  /\ UNCHANGED dbVars /\ PostFrame

\* onFinish: the trailing assistant message, await saveMessages; a missing
\* assistant message or a failed insert throws, is caught and logged
PostSaveOutbound(r, assistantId, dbOk) ==
  /\ ppc[r] = "saveOutbound"
  /\ LET row == [id |-> assistantId, chatId |-> ploc[r].id, role |-> "assistant",
                 createdAt |-> now]
         saved == assistantId # Null /\ dbOk /\ MessageInsertAllowed(chats, messages, row)
     IN  /\ messages' = IF saved THEN messages \cup {row} ELSE messages
         /\ Step(r, StepAfterOutboundSave(saved),
                 [ploc[r] EXCEPT !.outboundAttempted = TRUE, !.outboundSaved = saved,
                                 !.finishFault = IF assistantId = Null THEN "noAssistant"
                                                 ELSE IF ~dbOk THEN "storage"
                                                 ELSE Null])
  /\ UNCHANGED <<users, chats, votes>> /\ PostFrame

\* onFinish: close the MCP client if one is set
PostCloseMcp(r, threw) ==
  /\ ppc[r] = "closeMcp"
  /\ Step(r, "ended",
          IF ploc[r].mcpClient # "null" THEN CloseMcpClient(ploc[r], threw) ELSE ploc[r])
  /\ UNCHANGED dbVars /\ PostFrame

\* the request's abort signal fires; the listener, if added, closes the client
PostAbort(r, threw) ==
  /\ ppc[r] \notin {"idle", "responded"}
  /\ ~ploc[r].aborted
  /\ LET loc == [ploc[r] EXCEPT !.aborted = TRUE,
                                !.abortedStreaming = (ppc[r] = "streaming")]
     IN  ploc' = [ploc EXCEPT ![r] =
                    IF loc.listening /\ loc.mcpClient # "null"
                      THEN CloseMcpClient(loc, threw) ELSE loc]
  /\ UNCHANGED <<ppc, dbVars>> /\ PostFrame

\* the request is over; the next one may arrive
PostReturn(r) ==
  /\ ppc[r] \in {"responded", "ended"}
  /\ Step(r, "idle", IdleRequest)
  /\ UNCHANGED dbVars /\ PostFrame

FreshAssistantIds == {a \in AsstIds : \A m \in messages : m.id # a}

NextPost ==
  \/ Tick
  \/ \E r \in Requests, b \in Bodies, id \in PostChatIds, u \in {"A", "N", Null},
        m \in UserMsgIds \cup {Null}, mode \in McpModes :
       PostRequest(r, b, id, u, m, mode)
  \/ \E r \in Requests : PostAuth(r)
  \/ \E r \in Requests : PostGetUser(r)
  \/ \E r \in Requests, pr \in Profiles : PostClerk(r, pr)
  \/ \E r \in Requests : PostCreateUser(r)
  \/ \E r \in Requests : PostGetChat(r)
  \/ \E r \in Requests, ok \in BOOLEAN : PostTitle(r, ok)
  \/ \E r \in Requests : PostSaveChat(r)
  \/ \E r \in Requests : PostSaveInbound(r)
  \/ \E r \in Requests : PostMcpConnect(r)
  \/ \E r \in Requests : PostMcpTools(r)
  \/ \E r \in Requests : PostStreamText(r)
  \/ \E r \in Requests : PostChunk(r)
  \/ \E r \in Requests : PostStreamComplete(r)
  \/ \E r \in Requests : PostStreamError(r)
  \/ \E r \in Requests, u \in {"A", "N", Null} :
       (u \in {ploc[r].userId, Null}) /\ PostOnFinishAuth(r, u)
  \/ \E r \in Requests, a \in FreshAssistantIds \cup {Null}, ok \in BOOLEAN :
       PostSaveOutbound(r, a, ok)
  \/ \E r \in Requests, threw \in BOOLEAN : PostCloseMcp(r, threw)
  \/ \E r \in Requests, threw \in BOOLEAN : PostAbort(r, threw)
  \/ \E r \in Requests : PostReturn(r)

SpecPost == InitPost /\ [][NextPost]_vars

(* C10: in every execution of POST /api/chat the inbound message has been   *)
(* saved when streamText starts, and the outbound save is attempted only    *)
(* once the model stream has completed: not before the stream starts and    *)
(* not while it is still producing output.                                  *)
C10_InboundBeforeStreamOutboundAfter ==
  \A r \in Requests :
    /\ ploc[r].streamStarted =>
         /\ ploc[r].inboundSaved
         /\ \E m \in messages : m.id = ploc[r].msgId /\ m.chatId = ploc[r].id
    /\ ppc[r] = "streaming" => ~ploc[r].outboundAttempted
    /\ (ppc[r] = "saveOutbound" \/ ploc[r].outboundAttempted) =>
         (ploc[r].streamStarted /\ ploc[r].streamDone)

C10_Witness ==
  \E r \in Requests :
    /\ ploc[r].outboundAttempted /\ ploc[r].outboundSaved
    /\ ploc[r].streamDone /\ ploc[r].chunks = MaxChunks
    /\ \E m \in messages : m.role = "user" /\ m.chatId = ploc[r].id
    /\ \E m \in messages : m.role = "assistant" /\ m.chatId = ploc[r].id

\* the chat the request names exists and belongs to someone else
OwnedByAnother(r) ==
  /\ ploc[r].userId # Null
  /\ \E c \in chats : c.id = ploc[r].id /\ c.userId # ploc[r].userId

(* C11: in POST /api/chat, when a chat with the requested id exists and is  *)
(* owned by another user, the request is answered 401 at the chat           *)
(* resolution, it creates no chat, the chats are as they were, and it saves *)
(* no message into that chat.                                               *)
C11_ForeignChatPostIs401 ==
  \A r \in Requests :
    OwnedByAnother(r) =>
      /\ (ppc[r] = "responded" /\ ploc[r].from \in {"getChat", "title", "saveChat"})
           => ploc[r].status = 401
      /\ ~ploc[r].chatCreated
      /\ ~ploc[r].inboundSaved
      /\ ~ploc[r].outboundSaved

(* C13: in POST /api/chat, when the caller has no local user row and the    *)
(* identity provider's fetch fails or yields no primary email, the request  *)
(* is answered 500 there: it has written no user row, no chat and no        *)
(* message, and it has invoked the model neither for a title nor for the    *)
(* stream.                                                                  *)
C13_SyncFailureIs500NothingWritten ==
  \A r \in Requests :
    ploc[r].profile \in {"noPrimaryEmail", "fetchError"} =>
      /\ ppc[r] = "responded" /\ ploc[r].status = 500
      /\ ploc[r].userId \notin users /\ ~ploc[r].userCreated
      /\ ~ploc[r].chatCreated
      /\ \A c \in chats : c.userId # ploc[r].userId
      /\ ~ploc[r].inboundSaved /\ ~ploc[r].outboundSaved
      /\ ~ploc[r].modelInvoked /\ ~ploc[r].streamStarted

C13_Witness ==
  \E r \in Requests :
    /\ ploc[r].profile = "noPrimaryEmail" /\ ploc[r].msgId # Null
    /\ ppc[r] = "responded" /\ ploc[r].status = 500 /\ ploc[r].from = "clerk"
    /\ messages # {}

\* the steps of POST after the MCP set-up
AfterMcpSteps ==
  {"streamText", "streaming", "onFinishAuth", "saveOutbound", "closeMcp", "ended"}

(* C15: in POST /api/chat, a failure to spawn or connect to the remote tool *)
(* source, or to list its tools, is not fatal: no error is answered for it, *)
(* a client that was opened is closed and forgotten, and streamText is      *)
(* called with exactly the four local tools.                                *)
C15_McpFailureNonFatalLocalToolsOnly ==
  \A r \in Requests :
    ploc[r].mcpMode \in {"connectFail", "toolsFail"} =>
      /\ ploc[r].from \notin {"mcpConnect", "mcpTools"}
      /\ ppc[r] \in AfterMcpSteps =>
           /\ ploc[r].mcpClient = "null"
           /\ ploc[r].conn = (IF ploc[r].mcpMode = "toolsFail" THEN "closed" ELSE "none")
           /\ ploc[r].status = 200
           /\ ~ploc[r].uncaught
      /\ ploc[r].streamStarted =>
           /\ ploc[r].tools = LocalTools
           /\ Cardinality(DOMAIN ploc[r].tools) = 4

C15_Witness ==
  \E r \in Requests :
    /\ ploc[r].mcpMode = "toolsFail" /\ ploc[r].streamStarted
    /\ ploc[r].conn = "closed" /\ ploc[r].streamDone
    /\ ploc[r].tools = LocalTools

(* C16: a POST /api/chat request that opened a remote tool connection has   *)
(* closed it when the request is over, whichever way it ended: the model    *)
(* completed, the model or the stream failed, or the caller aborted.        *)
C16_ConnectionClosedOnEveryExit ==
  \A r \in Requests :
    ppc[r] = "ended" => ploc[r].conn # "open"

(* C17: whichever of onFinish and the abort listener closes the remote tool *)
(* connection second, a close of the already closed connection, rejecting   *)
(* or not, lets no error escape and leaves the request as it was: ended,    *)
(* answered 200, the connection closed, the saved messages in place.        *)
C17_DoubleCloseIsHarmless ==
  \A r \in Requests :
    ploc[r].reclosed =>
      /\ ~ploc[r].uncaught
      /\ ploc[r].conn = "closed"
      /\ ppc[r] = "ended" /\ ploc[r].status = 200 /\ ploc[r].streamDone
      /\ \E m \in messages :
           m.id = ploc[r].msgId /\ m.chatId = ploc[r].id /\ m.role = "user"
      /\ ploc[r].outboundSaved =>
           \E m \in messages : m.chatId = ploc[r].id /\ m.role = "assistant"

C17_Witness ==
  \E r \in Requests :
    /\ ploc[r].reclosed /\ ploc[r].abortedStreaming
    /\ ppc[r] = "ended" /\ ploc[r].outboundSaved

(* C18: once the caller's abort signal has fired during streaming in POST    *)
(* /api/chat, no further chunk of model output is relayed and no table is   *)
(* written any more, in particular no assistant message is saved; the       *)
(* inbound message saved before stays.                                      *)
C18_NothingRelayedOrWrittenAfterAbort ==
  [][\A r \in Requests :
       (ploc[r].abortedStreaming /\ ppc'[r] # "idle") =>
         /\ ploc'[r].chunks = ploc[r].chunks
         /\ UNCHANGED dbVars
         /\ ~ploc'[r].outboundSaved]_vars

(* C19: when the save of the outbound assistant message fails after the     *)
(* stream has completed, the failure is caught: the request stays a 200     *)
(* stream with no error escaping, the chat and the inbound message are      *)
(* still stored, and onFinish goes on to close the remote tool connection.  *)
C19_OutboundFailureOnlyLogged ==
  \A r \in Requests :
    (ploc[r].outboundAttempted /\ ~ploc[r].outboundSaved) =>
      /\ ppc[r] \in {"closeMcp", "ended"}
      /\ ploc[r].streamDone
      /\ ploc[r].status = 200 /\ ploc[r].from = Null /\ ~ploc[r].uncaught
      /\ \E c \in chats : c.id = ploc[r].id /\ c.userId = ploc[r].userId
      /\ \E m \in messages :
           m.id = ploc[r].msgId /\ m.chatId = ploc[r].id /\ m.role = "user"
      /\ (ppc[r] = "ended" /\ ploc[r].mcpClient # "null") => ploc[r].conn = "closed"

C19_Witness ==
  \E r \in Requests :
    /\ ploc[r].outboundAttempted /\ ~ploc[r].outboundSaved
    /\ ppc[r] = "ended" /\ ploc[r].mcpMode = "ok" /\ ploc[r].conn = "closed"
    /\ ~ploc[r].aborted /\ ploc[r].chunks = MaxChunks

\* the messages of a chat with this role
MessagesOf(chatId, role) == {m \in messages : m.chatId = chatId /\ m.role = role}

(* C20: when an authenticated user without a local row sends a first        *)
(* message for a chat id that does not exist and the model completes        *)
(* normally (the completion callback finds its session and an assistant     *)
(* message, and the storage does not fail), then at the end the user has a  *)
(* local row, exactly one chat has that id and it is the user's, the chat   *)
(* holds exactly the user message and one assistant message, the user       *)
(* message not created later than the assistant's, and the response is a    *)
(* 200 stream.                                                              *)
C20_FirstMessageEndToEnd ==
  \A r \in Requests :
    (/\ ppc[r] = "ended" /\ ploc[r].streamDone
     /\ ploc[r].userCreated /\ ploc[r].chatCreated
     /\ ploc[r].finishFault = Null) =>
      /\ ploc[r].status = 200 /\ ploc[r].from = Null
      /\ ploc[r].userId \in users
      /\ Cardinality({c \in chats : c.id = ploc[r].id}) = 1
      /\ \A c \in chats : c.id = ploc[r].id => c.userId = ploc[r].userId
      /\ Cardinality(MessagesOf(ploc[r].id, "user")) = 1
      /\ Cardinality(MessagesOf(ploc[r].id, "assistant")) = 1
      /\ \A m \in MessagesOf(ploc[r].id, "user") : m.id = ploc[r].msgId
      /\ \A u \in MessagesOf(ploc[r].id, "user"), a \in MessagesOf(ploc[r].id, "assistant") :
           u.createdAt <= a.createdAt

C20_Witness ==
  \E r \in Requests :
    /\ ppc[r] = "ended" /\ ploc[r].streamDone
    /\ ploc[r].userCreated /\ ploc[r].chatCreated /\ ploc[r].outboundSaved
    /\ ploc[r].userId = "N" /\ ploc[r].id = "c3"
    /\ \E u \in MessagesOf("c3", "user"), a \in MessagesOf("c3", "assistant") :
         u.createdAt < a.createdAt

----------------------------------------------------------------------------
(* SpecGate: POST and DELETE /api/chat from a caller without a session,     *)
(* while messages are saved into the two chats.                             *)

InitGate == InitPost

NextGate ==
  \/ Tick
  \/ \E id \in MsgIds, c \in ChatIds : SaveMessage(id, c, "user")
  \/ \E r \in Requests, b \in Bodies, id \in PostChatIds,
        m \in UserMsgIds \cup {Null}, mode \in McpModes :
       PostRequest(r, b, id, Null, m, mode)
  \/ \E r \in Requests : PostAuth(r)
  \/ \E r \in Requests : PostReturn(r)
  \/ \E id \in ChatIds \cup {Null}, pr \in Profiles : RouteDELETE(id, Null, pr)

SpecGate == InitGate /\ [][NextGate]_vars

(* C12: a POST or DELETE /api/chat request without an authenticated         *)
(* identity is answered 401, and no step of it creates, changes or deletes  *)
(* a user, chat, message or vote row.                                       *)
C12_NoIdentity401NoWrite ==
  [][/\ \A r \in Requests :
          (ppc'[r] # ppc[r] /\ ppc'[r] # "idle" /\ ploc'[r].userId = Null) =>
            /\ UNCHANGED dbVars
            /\ ppc'[r] = "responded" => ploc'[r].status = 401
     /\ (last' # last /\ last'.op = "DELETE" /\ last'.userId = Null) =>
            /\ UNCHANGED dbVars
            /\ last'.status = 401]_vars

----------------------------------------------------------------------------
(* SpecSync: two POST /api/chat requests of the user "N", who has no local  *)
(* row yet, run the just-in-time sync step by step, interleaved.  Their     *)
(* bodies hold no user message, so each request ends after the sync.        *)

SyncRequests == {"r1", "r2"}

InitSync ==
  /\ users = Users
  /\ chats = {ChatRow("c1", "A", 1), ChatRow("c2", "B", 1)}
  /\ messages = {}
  /\ votes = {}
  /\ now = 1
  /\ last = NoCall
  /\ vpc = IdleVote /\ vloc = IdleVote
  /\ ppc = [r \in SyncRequests |-> "idle"]
  /\ ploc = [r \in SyncRequests |-> IdleRequest]
  /\ IdleOther

NextSync ==
  \/ Tick
  \/ \E r \in SyncRequests, id \in PostChatIds, mode \in McpModes :
       PostRequest(r, "json", id, "N", Null, mode)
  \/ \E r \in SyncRequests : PostAuth(r)
  \/ \E r \in SyncRequests : PostGetUser(r)
  \/ \E r \in SyncRequests, pr \in Profiles : PostClerk(r, pr)
  \/ \E r \in SyncRequests : PostCreateUser(r)
  \/ \E r \in SyncRequests : PostReturn(r)

SpecSync == InitSync /\ [][NextSync]_vars

(* C14: when two requests of the same unseen user run getUserById and       *)
(* createClerkUser in any interleaving, the user has one local row          *)
(* afterwards and neither request is answered 500 because of the insert of  *)
(* an id that exists.                                                       *)
C14_ConcurrentSyncNoDuplicateError ==
  \A r \in SyncRequests :
    (ppc[r] = "responded" /\ ploc[r].profile = "email") =>
      /\ ploc[r].userId \in users
      /\ ~(ploc[r].from = "createUser" /\ ploc[r].status = 500)

----------------------------------------------------------------------------
(* SpecDocs: the Document and Suggestion tables under saveDocument,         *)
(* saveSuggestions and deleteDocumentsByIdAfterTimestamp, one call after    *)
(* the other.  A document id is created with a fresh UUID and revised only  *)
(* by the user who reads it back, so all revisions of an id have one owner. *)

DocIds == {"d1", "d2"}
SugIds == {"s1", "s2"}

\* primary key of Document (id, createdAt)
DocumentInsertAllowed(D, row) ==
  \A d \in D : ~(d.id = row.id /\ d.createdAt = row.createdAt)

\* primary key of Suggestion (id) and its foreign key
\* (documentId, documentCreatedAt) -> Document (id, createdAt)
SuggestionInsertAllowed(D, S, row) ==
  /\ \A x \in S : x.id # row.id
  /\ \E d \in D : d.id = row.documentId /\ d.createdAt = row.documentCreatedAt

\* deleting the revisions Del is refused while a remaining suggestion refers to one
DocumentDeleteAllowed(S, Del) ==
  \A x \in S : \A d \in Del :
    ~(x.documentId = d.id /\ x.documentCreatedAt = d.createdAt)

\* saveDocument({id, userId, ...}): insert a revision, createdAt = new Date()
SaveDocument(id, userId) ==
  LET row == [id |-> id, createdAt |-> now, userId |-> userId]
  IN  /\ IF DocumentInsertAllowed(documents, row)
           THEN documents' = documents \cup {row}
           ELSE documents' = documents
      /\ last' = [op |-> "saveDocument", id |-> id, userId |-> userId]
      /\ UNCHANGED <<dbVars, now, voteVars, postVars, suggestions, textVars, cascadeVars>>

\* saveSuggestions({suggestions: [s]})
SaveSuggestions(id, documentId, documentCreatedAt) ==
  LET row == [id |-> id, documentId |-> documentId,
              documentCreatedAt |-> documentCreatedAt]
  IN  /\ IF SuggestionInsertAllowed(documents, suggestions, row)
           THEN suggestions' = suggestions \cup {row}
           ELSE suggestions' = suggestions
      /\ last' = [op |-> "saveSuggestions", id |-> id]
      /\ UNCHANGED <<dbVars, now, voteVars, postVars, documents, textVars, cascadeVars>>

\* delete(suggestion).where(documentId = id and documentCreatedAt > timestamp)
SuggestionsToDelete(S, id, timestamp) ==
  {x \in S : x.documentId = id /\ x.documentCreatedAt > timestamp}

\* delete(document).where(id = id and userId = userId and createdAt > timestamp)
DocumentsToDelete(D, id, timestamp, userId) ==
  {d \in D : d.id = id /\ d.userId = userId /\ d.createdAt > timestamp}

\* the two deletes, one after the other and not in a transaction
DeleteDocumentsOutcome(D, S, id, timestamp, userId) ==
  LET S2  == S \ SuggestionsToDelete(S, id, timestamp)
      Del == DocumentsToDelete(D, id, timestamp, userId)
  IN  IF DocumentDeleteAllowed(S2, Del)
        THEN [result |-> "ok", documents |-> D \ Del, suggestions |-> S2]
        ELSE [result |-> "error", documents |-> D, suggestions |-> S2]

DeleteDocumentsByIdAfterTimestamp(id, timestamp, userId) ==
  LET out == DeleteDocumentsOutcome(documents, suggestions, id, timestamp, userId)
  IN  /\ documents' = out.documents
      /\ suggestions' = out.suggestions
      /\ last' = [op |-> "deleteDocumentsByIdAfterTimestamp", id |-> id,
                  timestamp |-> timestamp, userId |-> userId, result |-> out.result,
                  before |-> [documents |-> documents, suggestions |-> suggestions]]
      /\ UNCHANGED <<dbVars, now, voteVars, postVars, textVars, cascadeVars>>

InitDocs == InitRead

NextDocs ==
  \/ Tick
  \/ \E id \in DocIds, u \in Users :
       (\A d \in documents : d.id = id => d.userId = u) /\ SaveDocument(id, u)
  \/ \E id \in SugIds, d \in DocIds, t \in Times : SaveSuggestions(id, d, t)
  \/ \E id \in DocIds, t \in 0..MaxTime, u \in Users :
       DeleteDocumentsByIdAfterTimestamp(id, t, u)

SpecDocs == InitDocs /\ [][NextDocs]_vars

\* userId has a revision of document id
OwnsDocument(D, id, userId) == \E d \in D : d.id = id /\ d.userId = userId

\* the suggestions attached to one of the revisions Del
AttachedTo(S, Del) ==
  {x \in S : \E d \in Del : x.documentId = d.id /\ x.documentCreatedAt = d.createdAt}

(* C21: deleteDocumentsByIdAfterTimestamp(id, timestamp, userId) called by  *)
(* a user who does not own document id deletes no revision and no           *)
(* suggestion; called by the owner it deletes exactly the revisions of id   *)
(* with createdAt > timestamp and exactly the suggestions attached to them, *)
(* and no remaining suggestion refers to a deleted revision.                *)
C21_DocumentDeleteOwnershipChecked ==
  last.op = "deleteDocumentsByIdAfterTimestamp" =>
    LET D   == last.before.documents
        S   == last.before.suggestions
        Del == {d \in D : d.id = last.id /\ d.createdAt > last.timestamp}
    IN  IF ~OwnsDocument(D, last.id, last.userId)
          THEN documents = D /\ suggestions = S
          ELSE /\ documents = D \ Del
               /\ suggestions = S \ AttachedTo(S, Del)
               /\ AttachedTo(suggestions, D \ documents) = {}

----------------------------------------------------------------------------
(* SpecVoteRoute: PATCH /api/vote as one call, over the chats and messages  *)
(* that saveChat and saveMessages build.                                    *)

\* what the handler returns: a Response with a status, or nothing at all
Response(status) == [returned |-> TRUE, status |-> status]
NoResponse == [returned |-> FALSE, status |-> 0]

\* catch (error) { console.error(...) }: the handler falls off its end
PatchCatch == NoResponse

\* PATCH: 400 on a missing field, 401 without identity, 404 without the
\* caller's chat, then voteMessage inside try/catch
PatchRouteOutcome(C, M, V, chatId, messageId, type, userId) ==
  LET chat == GetChatById(C, chatId, userId)
      out == VoteMessageOutcome(C, M, V, chatId, messageId, type, userId)
  IN  IF chatId = Null \/ messageId = Null \/ type = Null
        THEN [response |-> Response(400), votes |-> V, threw |-> FALSE]
      ELSE IF userId = Null
        THEN [response |-> Response(401), votes |-> V, threw |-> FALSE]
      ELSE IF chat = {}
        THEN [response |-> Response(404), votes |-> V, threw |-> FALSE]
      ELSE IF \E c \in chat : c.userId # userId
        THEN [response |-> Response(401), votes |-> V, threw |-> FALSE]
      ELSE IF out.result = "ok"
        THEN [response |-> Response(200), votes |-> out.votes, threw |-> FALSE]
      ELSE [response |-> PatchCatch, votes |-> out.votes, threw |-> TRUE]

RoutePATCH(chatId, messageId, type, userId) ==
  LET out == PatchRouteOutcome(chats, messages, votes, chatId, messageId, type, userId)
  IN  /\ votes' = out.votes
      /\ last' = [op |-> "PATCH", chatId |-> chatId, messageId |-> messageId,
                  type |-> type, userId |-> userId, response |-> out.response,
                  threw |-> out.threw]
      /\ UNCHANGED <<users, chats, messages, now, voteVars, postVars, otherVars>>

NextVoteRoute ==
  \/ \E id \in ChatIds, u \in Users : SaveChat(id, u)
  \/ \E id \in MsgIds, c \in ChatIds : SaveMessage(id, c, "user")
  \/ \E c \in ChatIds \cup {Null}, m \in MsgIds \cup {Null}, t \in VoteTypes \cup {Null},
        u \in Users \cup {Null} : RoutePATCH(c, m, t, u)

SpecVoteRoute == InitRead /\ [][NextVoteRoute]_vars

(* C22: PATCH /api/vote answers every failure with a response that has a    *)
(* status code; when voteMessage throws inside it, the response has status  *)
(* 500 rather than the error being swallowed and no response returned.      *)
C22_PatchAlwaysResponds ==
  last.op = "PATCH" =>
    /\ last.response.returned
    /\ last.threw => last.response.status = 500

----------------------------------------------------------------------------
(* SpecVisibility: updateChatVisiblityById and the updateChatVisibility     *)
(* server action over the chats saveChat builds.                            *)

Visibilities == {"private", "public"}

\* mutant: the update's where clause has lost its owner predicate
UpdatedChatsNoOwner(C, id, userId) == {c \in C : c.id = id}

\* update(chat).where(and(eq(chat.id, id), eq(chat.userId, userId)))
UpdatedChats(C, id, userId) == {c \in C : c.id = id /\ c.userId = userId}

\* .set({ visibility }): the table afterwards
ChatsAfterVisibilityUpdate(C, id, visibility, userId) ==
  LET U == UpdatedChats(C, id, userId)
  IN  (C \ U) \cup {[c EXCEPT !.visibility = visibility] : c \in U}

UpdateChatVisiblityById(id, visibility, userId) ==
  /\ chats' = ChatsAfterVisibilityUpdate(chats, id, visibility, userId)
  /\ last' = [op |-> "updateChatVisiblityById", id |-> id, visibility |-> visibility,
              userId |-> userId, result |-> "ok", before |-> Snapshot]
  /\ UNCHANGED <<users, messages, votes, now, voteVars, postVars, otherVars>>

\* the server action: auth(), throw without a user id, then the update
UpdateChatVisibility(chatId, visibility, userId) ==
  /\ chats' = IF userId = Null THEN chats
              ELSE ChatsAfterVisibilityUpdate(chats, chatId, visibility, userId)
  /\ last' = [op |-> "updateChatVisibility", id |-> chatId, visibility |-> visibility,
              userId |-> userId, result |-> IF userId = Null THEN "error" ELSE "ok",
              before |-> Snapshot]
  /\ UNCHANGED <<users, messages, votes, now, voteVars, postVars, otherVars>>

NextVisibility ==
  \/ Tick
  \/ \E id \in PageChatIds, u \in Users : SaveChat(id, u)
  \/ \E id \in PageChatIds, v \in Visibilities, u \in Users :
       UpdateChatVisiblityById(id, v, u)
  \/ \E id \in PageChatIds, v \in Visibilities, u \in Users \cup {Null} :
       UpdateChatVisibility(id, v, u)

SpecVisibility == InitRead /\ [][NextVisibility]_vars

\* the chat row without its visibility
ChatIdentity(c) ==
  [id |-> c.id, userId |-> c.userId, title |-> c.title, createdAt |-> c.createdAt]

(* C23: updateChatVisiblityById(id, visibility, userId), called directly or *)
(* through the updateChatVisibility action, sets the visibility of chat id  *)
(* when userId is its owner; for a non-owner or a missing chat no row       *)
(* changes; in every case each chat keeps its userId, title and createdAt   *)
(* and every other chat is as it was.                                       *)
C23_VisibilityUpdateOwnerOnly ==
  last.op \in {"updateChatVisiblityById", "updateChatVisibility"} =>
    LET C == last.before.chats
    IN  /\ IF OwnsChat(C, last.id, last.userId)
             THEN \A c \in chats : c.id = last.id => c.visibility = last.visibility
             ELSE chats = C
        /\ {c \in chats : c.id # last.id} = {c \in C : c.id # last.id}
        /\ {ChatIdentity(c) : c \in chats} = {ChatIdentity(c) : c \in C}
        /\ Cardinality(chats) = Cardinality(C)

C23_Witness ==
  /\ last.op = "updateChatVisiblityById"
  /\ ~OwnsChat(last.before.chats, last.id, last.userId)
  /\ \E c \in chats : c.id = last.id /\ c.visibility # last.visibility
  /\ \E c \in chats : c.visibility = "public"

----------------------------------------------------------------------------
(* SpecText: the text document handler. A string is the sequence of its     *)
(* characters; fullStream is the sequence of events streamText yields.      *)

MaxEvents == 3

Fragments == {<<>>, <<"a">>, <<"b", "c">>}

StreamEvents ==
  {[type |-> "text-delta", textDelta |-> f] : f \in Fragments}
    \cup {[type |-> "step-finish", textDelta |-> <<>>],
          [type |-> "finish", textDelta |-> <<>>]}

RECURSIVE StreamsOfLength(_)
StreamsOfLength(n) ==
  IF n = 0 THEN {<<>>}
  ELSE {Append(s, e) : s \in StreamsOfLength(n - 1), e \in StreamEvents}

FullStreams == UNION {StreamsOfLength(n) : n \in 0..MaxEvents}

\* mutant: the draft is overwritten by the fragment
DraftReplaced(draftContent, textDelta) == textDelta

\* draftContent += textDelta
DraftAppended(draftContent, textDelta) == draftContent \o textDelta

\* let draftContent = ''; const { fullStream } = streamText(...)
TextHandlerStart(handler, fullStream) ==
  /\ tpc = "idle"
  /\ tpc' = "streaming"
  /\ tloc' = [handler |-> handler, fullStream |-> fullStream, consumed |-> 0,
              draftContent |-> <<>>, dataStream |-> <<>>, returned |-> <<>>]
  /\ UNCHANGED <<dbVars, now, last, voteVars, postVars, docVars, cascadeVars>>

OnCreateDocument(fullStream) == TextHandlerStart("onCreateDocument", fullStream)

OnUpdateDocument(fullStream) == TextHandlerStart("onUpdateDocument", fullStream)

\* one iteration of for await (const delta of fullStream): the append and the
\* writeData run with no await between them
TextForAwait ==
  /\ tpc = "streaming"
  /\ tloc.consumed < Len(tloc.fullStream)
  /\ LET delta == tloc.fullStream[tloc.consumed + 1]
     IN  tloc' = IF delta.type = "text-delta"
                   THEN [tloc EXCEPT
                           !.consumed = @ + 1,
                           !.draftContent = DraftAppended(@, delta.textDelta),
                           !.dataStream = Append(@, [type |-> "text-delta",
                                                     content |-> delta.textDelta])]
                   ELSE [tloc EXCEPT !.consumed = @ + 1]
  /\ UNCHANGED <<dbVars, now, last, voteVars, postVars, docVars, tpc, cascadeVars>>

\* return draftContent
TextReturn ==
  /\ tpc = "streaming"
  /\ tloc.consumed = Len(tloc.fullStream)
  /\ tpc' = "returned"
  /\ tloc' = [tloc EXCEPT !.returned = tloc.draftContent]
  /\ UNCHANGED <<dbVars, now, last, voteVars, postVars, docVars, cascadeVars>>

NextText ==
  \/ \E fullStream \in FullStreams : OnCreateDocument(fullStream)
  \/ \E fullStream \in FullStreams : OnUpdateDocument(fullStream)
  \/ TextForAwait
  \/ TextReturn

SpecText == InitRead /\ [][NextText]_vars

\* the in-order concatenation of the contents of the events written
RECURSIVE ConcatWritten(_)
ConcatWritten(w) ==
  IF w = <<>> THEN <<>> ELSE ConcatWritten(SubSeq(w, 1, Len(w) - 1)) \o w[Len(w)].content

\* the text-delta events among the first n events of a stream, as written
RECURSIVE DeltasOfPrefix(_, _)
DeltasOfPrefix(stream, n) ==
  IF n = 0 THEN <<>>
  ELSE IF stream[n].type = "text-delta"
         THEN Append(DeltasOfPrefix(stream, n - 1),
                     [type |-> "text-delta", content |-> stream[n].textDelta])
         ELSE DeltasOfPrefix(stream, n - 1)

(* C24: during onCreateDocument and onUpdateDocument the draft is always    *)
(* the in-order concatenation of the text-delta contents written to the     *)
(* data stream, the events written are exactly the text-delta events of the *)
(* fragments consumed so far (each written before the next is consumed,     *)
(* other events writing nothing), and the value returned is the             *)
(* concatenation of all deltas emitted.                                     *)
C24_DraftIsConcatenationOfWrittenDeltas ==
  tpc # "idle" =>
    /\ tloc.draftContent = ConcatWritten(tloc.dataStream)
    /\ tloc.dataStream = DeltasOfPrefix(tloc.fullStream, tloc.consumed)
    /\ tpc = "returned" =>
         /\ tloc.returned = ConcatWritten(tloc.dataStream)
         /\ tloc.dataStream = DeltasOfPrefix(tloc.fullStream, Len(tloc.fullStream))

C24_Witness ==
  /\ tpc = "returned"
  /\ tloc.handler = "onUpdateDocument"
  /\ Len(tloc.dataStream) = 2
  /\ Len(tloc.fullStream) = 3
  /\ tloc.fullStream[2].type # "text-delta"
  /\ tloc.returned = <<"a", "b", "c">>

----------------------------------------------------------------------------
(* SpecTools: the merge of the tool maps, over every answer of the remote   *)
(* tool source within the bound, names of local tools included.             *)

McpToolNames == LocalToolNames \cup {"remoteTool"}

RemoteCallables == {"remote", "remoteOther"}

McpToolMaps == UNION {[names -> RemoteCallables] : names \in SUBSET McpToolNames}

MergeAllTools(mcp) ==
  /\ last' = [op |-> "allTools", local |-> LocalTools, mcp |-> mcp,
              result |-> AllTools(LocalTools, mcp)]
  /\ UNCHANGED <<dbVars, now, voteVars, postVars, otherVars>>

NextTools == \E mcp \in McpToolMaps : MergeAllTools(mcp)

SpecTools == InitRead /\ [][NextTools]_vars

(* C25: the tool map given to the model holds every name of the local or    *)
(* the remote tools and no other; a name of one set only maps to that set's *)
(* callable and a name of both maps to the remote callable.                 *)
C25_ToolMergeRemoteWins ==
  last.op = "allTools" =>
    LET local == last.local
        mcp == last.mcp
        allTools == last.result
    IN  /\ DOMAIN allTools = DOMAIN local \cup DOMAIN mcp
        /\ \A n \in DOMAIN local \ DOMAIN mcp : allTools[n] = local[n]
        /\ \A n \in DOMAIN mcp \ DOMAIN local : allTools[n] = mcp[n]
        /\ \A n \in DOMAIN mcp \cap DOMAIN local : allTools[n] = mcp[n]

C25_Witness ==
  /\ last.op = "allTools"
  /\ DOMAIN last.mcp = {"getWeather", "remoteTool"}
  /\ last.result["getWeather"] = "remoteOther"
  /\ last.result["createDocument"] = "local"
  /\ last.result["remoteTool"] = "remote"

----------------------------------------------------------------------------
(* SpecCascade: deleteChatById statement by statement (no transaction spans *)
(* its three deletes), interleaved with saveMessages and with the awaits of *)
(* a voteMessage call.                                                      *)

CascadeCallers == {"p1"}

IdleCascade == [id |-> Null, deletedChats |-> {}]

\* mutant: the catch of deleteChatById only logs, and the call returns
CascadeCatchSwallows == "done"

\* catch (error) { console.error(...); throw error }
CascadeCatch == "error"

InitCascade ==
  /\ users = Users
  /\ chats = {ChatRow("c1", "A", 1), ChatRow("c2", "B", 1)}
  /\ messages = {[id |-> "m1", chatId |-> "c1", role |-> "user", createdAt |-> 1]}
  /\ votes = {}
  /\ now = 1
  /\ last = NoCall
  /\ vpc = [p \in Callers |-> "idle"]
  /\ vloc = [p \in Callers |-> IdleCall]
  /\ ppc = IdlePost /\ ploc = IdlePost
  /\ documents = {} /\ suggestions = {}
  /\ tpc = "idle" /\ tloc = "none"
  /\ dpc = "idle" /\ dloc = IdleCascade

CascadeFrame == UNCHANGED <<users, now, last, voteVars, postVars, docVars, textVars>>

\* deleteChatById({ id }) is entered
CascadeCall(id) ==
  /\ dpc = "idle"
  /\ dpc' = "deleteVotes"
  /\ dloc' = [dloc EXCEPT !.id = id]
  /\ UNCHANGED <<chats, messages, votes>>
  /\ CascadeFrame

\* await db.delete(vote).where(eq(vote.chatId, id))
CascadeDeleteVotes ==
  /\ dpc = "deleteVotes"
  /\ votes' = VotesAfterDeleteByChat(votes, dloc.id)
  /\ dpc' = "deleteMessages"
  /\ UNCHANGED <<chats, messages, dloc>>
  /\ CascadeFrame

\* await db.delete(message).where(eq(message.chatId, id)); a refused delete throws
CascadeDeleteMessages ==
  /\ dpc = "deleteMessages"
  /\ LET DM == {m \in messages : m.chatId = dloc.id}
     IN  IF MessageDeleteAllowed(votes, DM)
           THEN messages' = messages \ DM /\ dpc' = "deleteChat"
           ELSE messages' = messages /\ dpc' = CascadeCatch
  /\ UNCHANGED <<chats, votes, dloc>>
  /\ CascadeFrame

\* return await db.delete(chat).where(eq(chat.id, id)); a refused delete throws
CascadeDeleteChat ==
  /\ dpc = "deleteChat"
  /\ LET DC == {c \in chats : c.id = dloc.id}
     IN  IF ChatDeleteAllowed(messages, votes, DC)
           THEN chats' = chats \ DC /\ dpc' = "done"
           ELSE chats' = chats /\ dpc' = CascadeCatch
  /\ UNCHANGED <<messages, votes, dloc>>
  /\ CascadeFrame

\* the call has returned, or thrown to its caller
CascadeReturn ==
  /\ dpc \in {"done", "error"}
  /\ dpc' = "idle"
  /\ dloc' = [id |-> Null,
              deletedChats |-> IF dpc = "done" THEN dloc.deletedChats \cup {dloc.id}
                               ELSE dloc.deletedChats]
  /\ UNCHANGED <<chats, messages, votes>>
  /\ CascadeFrame

\* the inbound save writes the user message m1, the completion callback's
\* outbound save the assistant message m2
CascadeSaves == {[id |-> "m1", role |-> "user"], [id |-> "m2", role |-> "assistant"]}

NextCascade ==
  \/ \E id \in ChatIds : CascadeCall(id)
  \/ CascadeDeleteVotes
  \/ CascadeDeleteMessages
  \/ CascadeDeleteChat
  \/ CascadeReturn
  \/ \E s \in CascadeSaves, c \in ChatIds : SaveMessage(s.id, c, s.role)
  \/ \E p \in CascadeCallers, c \in ChatIds, m \in MsgIds, t \in VoteTypes, u \in Users :
       VoteCall(p, c, m, t, u)
  \/ \E p \in CascadeCallers : VoteVerify(p)
  \/ \E p \in CascadeCallers : VoteSelect(p)
  \/ \E p \in CascadeCallers : VoteUpdate(p)
  \/ \E p \in CascadeCallers : VoteInsert(p)
  \/ \E p \in CascadeCallers : VoteReturn(p)

SpecCascade == InitCascade /\ [][NextCascade]_vars

(* C26: however the three deletes of deleteChatById(id) interleave with     *)
(* saveMessages and voteMessage on the same chat, after a successful return *)
(* of deleteChatById(id) no message and no vote carries that chat id, and   *)
(* every vote row refers to a message that exists.                          *)
C26_CascadeKeepsReferentialIntegrity ==
  /\ \A id \in dloc.deletedChats :
       /\ \A m \in messages : m.chatId # id
       /\ \A v \in votes : v.chatId # id
  /\ \A v \in votes : \E m \in messages : m.id = v.messageId

C26_Witness ==
  /\ "c1" \in dloc.deletedChats
  /\ dpc = "error"
  /\ dloc.id = "c2"
  /\ \E m \in messages : m.chatId = "c2"
  /\ \E p \in CascadeCallers : vpc[p] = "error" /\ vloc[p].chatId = "c1"

----------------------------------------------------------------------------
(* SpecChatRace: two POST /api/chat requests of the user "A" for the chat   *)
(* id "c3", which no chat has yet, each with its own user message, run step *)
(* by step and interleaved up to the call of streamText.                    *)

RaceRequests == {"r1", "r2"}

RaceChatId == "c3"

\* the user message each request carries
RaceMessage == [r \in RaceRequests |-> IF r = "r1" THEN "m1" ELSE "m2"]

InitChatRace ==
  /\ users = Users
  /\ chats = {ChatRow("c1", "A", 1), ChatRow("c2", "B", 1)}
  /\ messages = {}
  /\ votes = {}
  /\ now = 1
  /\ last = NoCall
  /\ vpc = IdleVote /\ vloc = IdleVote
  /\ ppc = [r \in RaceRequests |-> "idle"]
  /\ ploc = [r \in RaceRequests |-> IdleRequest]
  /\ IdleOther

NextChatRace ==
  \/ Tick
  \/ \E r \in RaceRequests : PostRequest(r, "json", RaceChatId, "A", RaceMessage[r], "unset")
  \/ \E r \in RaceRequests : PostAuth(r)
  \/ \E r \in RaceRequests : PostGetUser(r)
  \/ \E r \in RaceRequests : PostGetChat(r)
  \/ \E r \in RaceRequests, ok \in BOOLEAN : PostTitle(r, ok)
  \/ \E r \in RaceRequests : PostSaveChat(r)
  \/ \E r \in RaceRequests : PostSaveInbound(r)
  \/ \E r \in RaceRequests : PostMcpConnect(r)
  \/ \E r \in RaceRequests : PostStreamText(r)
  \/ \E r \in RaceRequests : PostReturn(r)

SpecChatRace == InitChatRace /\ [][NextChatRace]_vars

\* the request's saveChat was refused: another request created the chat first
LostCreationRace(r) == ploc[r].chatRefused

OneRowPerChatId ==
  \A id \in PostChatIds : Cardinality({c \in chats : c.id = id}) <= 1

\* the request's user message is in no table
InboundNotSaved(r) ==
  /\ ~ploc[r].inboundSaved
  /\ \A m \in messages : m.id # ploc[r].msgId

(* C27, as stated: of two concurrent POST /api/chat requests for one new    *)
(* chat id, at most one chat row with the id exists afterwards, and the     *)
(* request whose chat creation loses the race is answered an error without  *)
(* having saved its inbound message or invoked the model.                   *)
C27_LoserSavedNothingInvokedNoModel ==
  /\ OneRowPerChatId
  /\ \A r \in RaceRequests :
       LostCreationRace(r) =>
         /\ ppc[r] = "responded"
         /\ ploc[r].status = 500
         /\ InboundNotSaved(r)
         /\ ~ploc[r].modelInvoked

(* C27, amended: at most one chat row with the id exists, and the request   *)
(* whose chat creation loses the race is answered 500 without having saved  *)
(* its inbound message or started the model stream; the model call that     *)
(* generates the title, which precedes the creation, it has made.           *)
C27_LoserSavedNothingStartedNoStream ==
  /\ OneRowPerChatId
  /\ \A r \in RaceRequests :
       LostCreationRace(r) =>
         /\ ppc[r] = "responded"
         /\ ploc[r].status = 500
         /\ InboundNotSaved(r)
         /\ ~ploc[r].streamStarted
         /\ ploc[r].modelInvoked

C27_Witness ==
  /\ LostCreationRace("r2")
  /\ ploc["r1"].chatCreated
  /\ ppc["r1"] = "streaming"
  /\ \E c \in chats : c.id = RaceChatId /\ c.createdAt = 1
  /\ now = 2

----------------------------------------------------------------------------
(* C28: every vote row's messageId names a message of the vote's own chat,  *)
(* and a voteMessage call that reports success leaves a vote recorded for   *)
(* its (chatId, messageId).                                                 *)
C28_VoteMessageBelongsToVoteChat ==
  /\ \A v \in votes : \E m \in messages : m.id = v.messageId /\ m.chatId = v.chatId
  /\ (last.op = "voteMessage" /\ last.result = "ok") =>
       \E v \in votes : v.chatId = last.chatId /\ v.messageId = last.messageId

====
